---- MODULE Spec2Model ----
(***************************************************************************)
(* A model of the 5x5 crossword generator of src/main.py: the Trie         *)
(* (insert, search), the CrosswordPuzzle generator (generate, fill_puzzle, *)
(* choose_next_word, evaluate_word, evaluate_vertical_possibilities,       *)
(* place_word, fill_clues) and the driver that builds the trie from the    *)
(* word list (create_sample_trie, main).                                   *)
(*                                                                         *)
(* Words are sequences of one-character strings.  Grid cells are indexed   *)
(* from 0 as in the code; sequences are indexed from 1, so character j of  *)
(* a Python string is element j+1 of the sequence.                         *)
(***************************************************************************)
EXTENDS Naturals, Sequences, FiniteSets, TLC

VARIABLES
    words_and_clues, \* create_sample_trie: the (word, clue) pairs inserted so far
    trie,            \* Trie: node path |-> [children, is_end_of_word, words]
    pc,              \* position of the driver / of generate()
    randomness,      \* CrosswordPuzzle.randomness, in halves (0 = 0.0, 1 = 0.5)
    words,           \* CrosswordPuzzle.words
    puzzle,          \* CrosswordPuzzle.puzzle
    clues,           \* CrosswordPuzzle.clues
    complete,        \* CrosswordPuzzle.complete
    tries,           \* generate(): local tries
    row,             \* fill_puzzle(): local row (next row to fill)
    next_word,       \* fill_puzzle(): local next_word
    greedy,          \* choose_next_word(): the branch of line 107 was taken
    fill_ok,         \* generate(): value returned by the last fill_puzzle()
    attempts,        \* number of fill_puzzle() calls made by the current generate()
    result           \* how the last generate() ended

vars == <<words_and_clues, trie, pc, randomness, words, puzzle, clues, complete,
          tries, row, next_word, greedy, fill_ok, attempts, result>>

-----------------------------------------------------------------------------
(* Program constants and the bounds of the model. *)

\* The grid is 5x5 and only 5-letter words are placed.
N == 5

\* CrosswordPuzzle.max_tries (500 in the source), scaled down.
max_tries == 2

\* The longest word list create_sample_trie is run on.
MaxEntries == 3

\* The longest word list, and the longest word, of the trie-only specification.
MaxTrieEntries == 2

MaxLen == 3

Alphabet == {"a", "b"}

Blank == " "

\* Python's None returned by choose_next_word; no word is the empty sequence here.
None == <<>>

NoClue == "No clue found"

ClueSet == {"c1", "c2"}

\* The clue of the k-th pair of the generator's word list.  The code never
\* looks inside a clue; distinct labels tell the entries apart.
ClueAt(k) == <<"clue 1", "clue 2", "clue 3", "clue 4", "clue 5", "clue 6">>[k]

\* random.random() lies in [0, 1): in halves, 0 or 1.
Draws == {0, 1}

\* The randomness parameter, in halves: 0.0 (always greedy) and 0.5.
RandomnessValues == {0, 1}

\* The words the word list is drawn from: 5-letter words, one 6-letter word
\* and one 4-letter word (insert accepts any length).
Pool ==
    { <<"a","a","a","a","a">>,
      <<"a","a","a","b","a">>,
      <<"b","a","a","b","a">>,
      <<"a","a","a","a","b","a">>,
      <<"a","a","a","a">> }

Range(s) == {s[i] : i \in DOMAIN s}

StringsUpTo(n) == UNION {[1..k -> Alphabet] : k \in 0..n}

-----------------------------------------------------------------------------
(* Trie *)

\* TrieNode.__init__
NewNode == [children |-> <<>>, is_end_of_word |-> FALSE, words |-> <<>>]

\* Trie.__init__: only the root, whose path is the empty sequence.
EmptyTrie == [p \in {<<>>} |-> NewNode]

\* A slip Trie.insert could have: the pair is recorded at the word's own node only.
InsertCharTerminalOnly(t, word, clue, k) ==
    LET parent == SubSeq(word, 1, k - 1)
        node   == SubSeq(word, 1, k)
        t1 == IF word[k] \in Range(t[parent].children)
              THEN t
              ELSE [p \in DOMAIN t \cup {node} |->
                      IF p = node THEN NewNode
                      ELSE IF p = parent
                           THEN [t[p] EXCEPT !.children = Append(@, word[k])]
                           ELSE t[p]]
    IN  IF k = Len(word)
        THEN [t1 EXCEPT ![node].words = Append(@, <<word, clue>>)]
        ELSE t1

\* One iteration of the loop of Trie.insert, for character k of word.
InsertChar(t, word, clue, k) ==
    LET parent == SubSeq(word, 1, k - 1)
        node   == SubSeq(word, 1, k)
        t1 == IF word[k] \in Range(t[parent].children)
              THEN t
              ELSE [p \in DOMAIN t \cup {node} |->
                      IF p = node THEN NewNode
                      ELSE IF p = parent
                           THEN [t[p] EXCEPT !.children = Append(@, word[k])]
                           ELSE t[p]]
    IN  [t1 EXCEPT ![node].words = Append(@, <<word, clue>>)]

RECURSIVE InsertLoop(_, _, _, _)
InsertLoop(t, word, clue, k) ==
    IF k > Len(word) THEN t
    ELSE InsertLoop(InsertChar(t, word, clue, k), word, clue, k + 1)

\* Trie.insert
insert(t, word, clue) ==
    LET t1 == InsertLoop(t, word, clue, 1)
    IN  [t1 EXCEPT ![word].is_end_of_word = TRUE]

\* The loop of Trie.search from character k on; the node reached so far is
\* the one at path SubSeq(prefix, 1, k-1).
RECURSIVE SearchFrom(_, _, _)
SearchFrom(t, prefix, k) ==
    IF k > Len(prefix) THEN t[prefix].words
    ELSE IF prefix[k] \notin Range(t[SubSeq(prefix, 1, k - 1)].children)
         THEN <<>>
         ELSE SearchFrom(t, prefix, k + 1)

\* Trie.search
search(t, prefix) == SearchFrom(t, prefix, 1)

-----------------------------------------------------------------------------
(* CrosswordPuzzle: pure helpers *)

BlankPuzzle == [i \in 0..N-1 |-> [j \in 0..N-1 |-> Blank]]

BlankClues == [d \in 0..1 |-> [i \in 0..N-1 |-> Blank]]

\* CrosswordPuzzle._collect_all_words: pre-order walk, children in the order
\* in which they were created.
RECURSIVE CollectAll(_, _), CollectChildren(_, _, _)
CollectAll(t, node) ==
    (IF t[node].is_end_of_word THEN t[node].words ELSE <<>>)
        \o CollectChildren(t, node, 1)
CollectChildren(t, node, i) ==
    IF i > Len(t[node].children) THEN <<>>
    ELSE CollectAll(t, Append(node, t[node].children[i]))
            \o CollectChildren(t, node, i + 1)

\* get_random_word: the list the seed word is drawn from.
five_letter_words == SelectSeq(words, LAMBDA e : Len(e[1]) = N)

\* CrosswordPuzzle.place_word
place_word(p, word, start, direction) ==
    [x \in 0..N-1 |-> [y \in 0..N-1 |->
        IF \E i \in 0..Len(word)-1 :
              x = start[1] + direction[1] * i /\ y = start[2] + direction[2] * i
        THEN word[(CHOOSE i \in 0..Len(word)-1 :
                      x = start[1] + direction[1] * i
                      /\ y = start[2] + direction[2] * i) + 1]
        ELSE p[x][y]]]

\* evaluate_word, lines 117-123: column j of rows 0..r-1, then character j of word.
VerticalPrefix(word, r, j) ==
    [i \in 1..r+1 |-> IF i <= r THEN puzzle[i-1][j] ELSE word[j+1]]

\* CrosswordPuzzle.evaluate_vertical_possibilities
evaluate_vertical_possibilities(prefix) ==
    IF Len(prefix) = N
    THEN IF search(trie, prefix) # <<>> THEN 1 ELSE 0
    ELSE Len(SelectSeq(search(trie, prefix), LAMBDA e : Len(e[1]) = N))

\* evaluate_word, lines 127-133.
RECURSIVE SumLoop(_, _, _)
SumLoop(prefix_sums, j, total) ==
    IF j > N - 1 THEN total
    ELSE IF prefix_sums[j] = 0 THEN 0
         ELSE SumLoop(prefix_sums, j + 1, total + prefix_sums[j])

\* A slip evaluate_word could have: the dead column is not short-circuited.
RECURSIVE SumLoopNoShortCircuit(_, _, _)
SumLoopNoShortCircuit(prefix_sums, j, total) ==
    IF j > N - 1 THEN total
    ELSE SumLoopNoShortCircuit(prefix_sums, j + 1, total + prefix_sums[j])

evaluate_word_no_short_circuit(word, r) ==
    IF Len(word) # N THEN 0
    ELSE SumLoopNoShortCircuit(
            [j \in 0..N-1 |->
                evaluate_vertical_possibilities(VerticalPrefix(word, r, j))],
            0, 0)

\* CrosswordPuzzle.evaluate_word
evaluate_word(word, r) ==
    IF Len(word) # N THEN 0
    ELSE SumLoop(
            [j \in 0..N-1 |->
                evaluate_vertical_possibilities(VerticalPrefix(word, r, j))],
            0, 0)

\* choose_next_word, line 86.
last_words(r) ==
    LET sel == SelectSeq(words,
                   LAMBDA e : Len(e[1]) = N /\ evaluate_word(e[1], r) > 0)
    IN  [i \in 1..Len(sel) |-> sel[i][1]]

\* choose_next_word, lines 91-104: the scan of self.words.
RECURSIVE ScanWords(_, _, _)
ScanWords(r, i, acc) ==
    IF i > Len(words) THEN acc
    ELSE LET word == words[i][1] IN
         IF Len(word) # N THEN ScanWords(r, i + 1, acc)
         ELSE LET score == evaluate_word(word, r)
                  a1 == IF score > 0
                        THEN [acc EXCEPT !.possible_words = Append(@, word)]
                        ELSE acc
                  a2 == IF score > acc.max_score
                        THEN [a1 EXCEPT !.max_score = score, !.max_word = word]
                        ELSE a1
              IN  ScanWords(r, i + 1, a2)

\* A slip the scan could have: >= keeps the last word achieving the maximum.
RECURSIVE ScanWordsLastMax(_, _, _)
ScanWordsLastMax(r, i, acc) ==
    IF i > Len(words) THEN acc
    ELSE LET word == words[i][1] IN
         IF Len(word) # N THEN ScanWordsLastMax(r, i + 1, acc)
         ELSE LET score == evaluate_word(word, r)
                  a1 == IF score > 0
                        THEN [acc EXCEPT !.possible_words = Append(@, word)]
                        ELSE acc
                  a2 == IF score > 0 /\ score >= acc.max_score
                        THEN [a1 EXCEPT !.max_score = score, !.max_word = word]
                        ELSE a1
              IN  ScanWordsLastMax(r, i + 1, a2)

scan_last_max(r) ==
    ScanWordsLastMax(r, 1, [max_score |-> 0, max_word |-> None, possible_words |-> <<>>])

\* A slip the scan could have: the first feasible word is kept as max_word.
scan_first_feasible(r) ==
    LET s == ScanWords(r, 1, [max_score |-> 0, max_word |-> None, possible_words |-> <<>>])
    IN  IF s.possible_words = <<>> THEN s
        ELSE [s EXCEPT !.max_word = s.possible_words[1]]

\* choose_next_word, lines 91-104.
scan(r) ==
    ScanWords(r, 1, [max_score |-> 0, max_word |-> None, possible_words |-> <<>>])

\* fill_clues, lines 159-162.
horizontal_word(p, i) == [k \in 1..N |-> p[i][k-1]]
vertical_word(p, j) == [k \in 1..N |-> p[k-1][j]]

\* fill_clues, lines 165-166 and 169-170.
clue_for(word) ==
    LET matches == search(trie, word)
    IN  IF matches # <<>> THEN matches[1][2] ELSE NoClue

\* CrosswordPuzzle.fill_clues (past the guard of line 153).
fill_clues ==
    [d \in 0..1 |-> [i \in 0..N-1 |->
        IF d = 0 THEN clue_for(horizontal_word(puzzle, i))
                 ELSE clue_for(vertical_word(puzzle, i))]]

-----------------------------------------------------------------------------
(* The state machine *)

Init ==
    /\ words_and_clues = <<>>
    /\ trie = EmptyTrie
    /\ pc = "build"
    /\ randomness = 0
    /\ words = <<>>
    /\ puzzle = BlankPuzzle
    /\ clues = BlankClues
    /\ complete = FALSE
    /\ tries = 0
    /\ row = 0
    /\ next_word = None
    /\ greedy = FALSE
    /\ fill_ok = FALSE
    /\ attempts = 0
    /\ result = "none"

\* create_sample_trie: one iteration of the loop over the word list.
TrieInsert(word, clue) ==
    /\ pc = "build"
    /\ trie' = insert(trie, word, clue)
    /\ words_and_clues' = Append(words_and_clues, <<word, clue>>)
    /\ UNCHANGED <<pc, randomness, words, puzzle, clues, complete, tries, row,
                   next_word, greedy, fill_ok, attempts, result>>

\* CrosswordPuzzle.__init__
Construct(rnd) ==
    /\ pc = "build"
    /\ randomness' = rnd
    /\ puzzle' = BlankPuzzle
    /\ clues' = BlankClues
    /\ complete' = FALSE
    /\ words' = CollectAll(trie, <<>>)
    /\ pc' = "idle"
    /\ UNCHANGED <<words_and_clues, trie, tries, row, next_word, greedy,
                   fill_ok, attempts, result>>

\* generate(), line 60.
Generate ==
    /\ pc = "idle"
    /\ tries' = 0
    /\ attempts' = 0
    /\ fill_ok' = FALSE
    /\ next_word' = None
    /\ greedy' = FALSE
    /\ result' = "none"
    /\ pc' = "fill"
    /\ UNCHANGED <<words_and_clues, trie, randomness, words, puzzle, clues,
                   complete, row>>

\* fill_puzzle(), lines 71-73, with a 5-letter word to draw.
FillPuzzleSeed ==
    /\ pc = "fill"
    /\ five_letter_words # <<>>
    /\ \E k \in DOMAIN five_letter_words :
          puzzle' = place_word(BlankPuzzle, five_letter_words[k][1], <<0, 0>>, <<0, 1>>)
    /\ attempts' = attempts + 1
    /\ row' = 1
    /\ next_word' = None
    /\ greedy' = FALSE
    /\ pc' = "choose"
    /\ UNCHANGED <<words_and_clues, trie, randomness, words, clues, complete,
                   tries, fill_ok, result>>

\* fill_puzzle(), lines 71-72: get_random_word raises, and so does generate().
FillPuzzleNoWords ==
    /\ pc = "fill"
    /\ five_letter_words = <<>>
    /\ puzzle' = BlankPuzzle
    /\ attempts' = attempts + 1
    /\ row' = 0
    /\ result' = "EmptyDictionary"
    /\ pc' = "idle"
    /\ UNCHANGED <<words_and_clues, trie, randomness, words, clues, complete,
                   tries, next_word, greedy, fill_ok>>

\* fill_puzzle(), line 76: choose_next_word(row).
ChooseNextWord ==
    /\ pc = "choose"
    /\ IF row = N - 1
       THEN /\ IF last_words(row) # <<>>
               THEN \E k \in DOMAIN last_words(row) : next_word' = last_words(row)[k]
               ELSE next_word' = None
            /\ greedy' = FALSE
       ELSE LET s == scan(row) IN
            IF s.max_score > 0
            THEN \E d \in Draws :
                    IF d >= randomness
                    THEN next_word' = s.max_word /\ greedy' = TRUE
                    ELSE /\ greedy' = FALSE
                         /\ IF s.possible_words # <<>>
                            THEN \E k \in DOMAIN s.possible_words :
                                    next_word' = s.possible_words[k]
                            ELSE next_word' = None
            ELSE next_word' = None /\ greedy' = FALSE
    /\ pc' = "place"
    /\ UNCHANGED <<words_and_clues, trie, randomness, words, puzzle, clues,
                   complete, tries, row, fill_ok, attempts, result>>

\* fill_puzzle(), lines 79-82: the word is placed; after row 4 the puzzle is
\* complete, fill_puzzle returns True and the loop of generate() ends.
PlaceNextWord ==
    /\ pc = "place"
    /\ next_word # None
    /\ puzzle' = place_word(puzzle, next_word, <<row, 0>>, <<0, 1>>)
    /\ row' = row + 1
    /\ IF row = N - 1
       THEN complete' = TRUE /\ fill_ok' = TRUE /\ pc' = "check"
       ELSE UNCHANGED <<complete, fill_ok>> /\ pc' = "choose"
    /\ UNCHANGED <<words_and_clues, trie, randomness, words, clues, tries,
                   next_word, greedy, attempts, result>>

\* fill_puzzle(), lines 77-78, and the loop test of generate(), lines 61-62.
FillPuzzleFail ==
    /\ pc = "place"
    /\ next_word = None
    /\ fill_ok' = FALSE
    /\ IF tries < max_tries
       THEN tries' = tries + 1 /\ pc' = "fill"
       ELSE UNCHANGED tries /\ pc' = "check"
    /\ UNCHANGED <<words_and_clues, trie, randomness, words, puzzle, clues,
                   complete, row, next_word, greedy, attempts, result>>

\* generate(), lines 64-65.
GenerateRaise ==
    /\ pc = "check"
    /\ ~complete
    /\ result' = "GenerationExhausted"
    /\ pc' = "idle"
    /\ UNCHANGED <<words_and_clues, trie, randomness, words, puzzle, clues,
                   complete, tries, row, next_word, greedy, fill_ok, attempts>>

\* generate(), lines 64-68.
GenerateFinish ==
    /\ pc = "check"
    /\ complete
    /\ clues' = fill_clues
    /\ result' = "Finished"
    /\ pc' = "idle"
    /\ UNCHANGED <<words_and_clues, trie, randomness, words, puzzle, complete,
                   tries, row, next_word, greedy, fill_ok, attempts>>

InsertFromPool ==
    /\ Len(words_and_clues) < MaxEntries
    /\ \E w \in Pool : TrieInsert(w, ClueAt(Len(words_and_clues) + 1))

ConstructAny == \E rnd \in RandomnessValues : Construct(rnd)

Next ==
    \/ InsertFromPool
    \/ ConstructAny
    \/ Generate
    \/ FillPuzzleSeed
    \/ FillPuzzleNoWords
    \/ ChooseNextWord
    \/ PlaceNextWord
    \/ FillPuzzleFail
    \/ GenerateRaise
    \/ GenerateFinish

Spec == Init /\ [][Next]_vars

\* The trie alone, on words of every length up to MaxLen (the empty word too).
InsertAny ==
    /\ Len(words_and_clues) < MaxTrieEntries
    /\ \E w \in StringsUpTo(MaxLen), c \in ClueSet : TrieInsert(w, c)

NextTrie == InsertAny

SpecTrie == Init /\ [][NextTrie]_vars

-----------------------------------------------------------------------------
(* The dictionary as the word list defines it, independently of the trie. *)

IsPrefix(p, w) == Len(p) <= Len(w) /\ SubSeq(w, 1, Len(p)) = p

\* The words inserted as complete words of length exactly 5.
Dictionary5 == {e[1] : e \in {x \in Range(words_and_clues) : Len(x[1]) = N}}

\* The pairs of the word list whose word starts with prefix, in list order.
Matching(prefix) == SelectSeq(words_and_clues, LAMBDA e : IsPrefix(prefix, e[1]))

\* The clue of the first pair of the word list whose word is exactly s.
ExpectedClue(s) ==
    LET hits == {k \in DOMAIN words_and_clues : words_and_clues[k][1] = s}
    IN  IF hits = {} THEN NoClue
        ELSE words_and_clues[CHOOSE k \in hits : \A m \in hits : k <= m][2]

RowBlank(p, i) == \A j \in 0..N-1 : p[i][j] = Blank

\* A grid with some row written and some row still blank.
Partial(p) == (\E i \in 0..N-1 : ~RowBlank(p, i)) /\ (\E i \in 0..N-1 : RowBlank(p, i))

\* Column j of rows 0..r.
ColumnPrefix(p, r, j) == [i \in 1..r+1 |-> p[i-1][j]]

\* The largest score of a 5-letter word of the word list for row r (0 if none).
MaxScore(r) ==
    LET scores == {evaluate_word(w, r) : w \in Dictionary5} \cup {0}
    IN  CHOOSE m \in scores : \A n \in scores : n <= m

\* A generate() call has returned or raised after fill attempts that all failed.
CallEndedAllFailed ==
    pc = "idle" /\ result \in {"Finished", "GenerationExhausted"} /\ ~fill_ok

\* A generate() call has finished after an attempt that placed all 5 rows.
CallSucceeded == pc = "idle" /\ result = "Finished" /\ fill_ok

-----------------------------------------------------------------------------
(* The claims *)

\* C1: whenever generate() succeeds, each of the 5 rows and each of the 5
\* columns of the final grid is a word inserted as a complete word of length 5.
\* (Stated here for calls whose last attempt placed all 5 rows.)
C1_GridValidity ==
    CallSucceeded =>
        \A i \in 0..N-1 :
            /\ horizontal_word(puzzle, i) \in Dictionary5
            /\ vertical_word(puzzle, i) \in Dictionary5

\* C2: when every fill attempt of a generate() call fails, generate() makes
\* exactly max_tries attempts and then fails with GenerationExhausted; it never
\* makes more than max_tries attempts.
C2_ExactlyMaxTriesAttempts ==
    /\ attempts <= max_tries
    /\ CallEndedAllFailed =>
          (attempts = max_tries /\ result = "GenerationExhausted")

\* C3: in any sequence of generate() calls, a call none of whose attempts
\* places all 5 rows fails with GenerationExhausted; it does not derive clues
\* or report success.
C3_ExhaustionSignalled ==
    CallEndedAllFailed => result = "GenerationExhausted"

\* C4: when generate() has failed with GenerationExhausted, the generator's
\* grid does not hold the partially filled rows of a failed attempt.
C4_NoPartialGrid ==
    result = "GenerationExhausted" => ~Partial(puzzle)

\* C5: with randomness = 0, for rows 1..3, choose_next_word returns a word
\* whose score is the maximum over all 5-letter words of the dictionary, and
\* returns no candidate exactly when that maximum is 0.
C5_GreedyBound ==
    (pc = "place" /\ randomness = 0 /\ row \in 1..N-2) =>
        /\ (next_word = None) <=> (MaxScore(row) = 0)
        /\ next_word # None =>
              /\ next_word \in Dictionary5
              /\ evaluate_word(next_word, row) = MaxScore(row)

\* C5 witness: the greedy choice was made where another feasible word scores less.
C5_Witness ==
    /\ pc = "place" /\ randomness = 0 /\ row \in 1..N-2
    /\ next_word # None
    /\ \E w \in Dictionary5 :
          0 < evaluate_word(w, row) /\ evaluate_word(w, row) < MaxScore(row)

\* C6: after a successful generate(), every across clue and every down clue is
\* the clue of the first-inserted entry whose word is exactly that row or column
\* string, and "No clue found" when no entry has exactly that word.
C6_ClueCorrectness ==
    CallSucceeded =>
        \A i \in 0..N-1 :
            /\ clues[0][i] = ExpectedClue(horizontal_word(puzzle, i))
            /\ clues[1][i] = ExpectedClue(vertical_word(puzzle, i))

\* C7 as stated: for every prefix, the empty one included, search returns
\* exactly the inserted pairs whose word starts with it, in insertion order.
C7_PrefixLookupAnyPrefix ==
    \A p \in StringsUpTo(MaxLen + 1) : search(trie, p) = Matching(p)

\* C7 as amended: for every non-empty prefix, search returns exactly the
\* inserted pairs whose word starts with it, once per insertion and in
\* insertion order (empty if there are none); for the empty prefix it returns
\* the empty sequence.
C7_PrefixLookup ==
    \A p \in StringsUpTo(MaxLen + 1) :
        search(trie, p) = IF p = <<>> THEN <<>> ELSE Matching(p)

\* C7 witness: a non-empty prefix for which search returns two inserted pairs
\* with different words, while another non-empty prefix of an inserted word
\* is matched by one pair only.
C7_Witness ==
    \E p \in StringsUpTo(MaxLen + 1) :
        /\ p # <<>>
        /\ Len(search(trie, p)) = 2
        /\ search(trie, p)[1][1] # search(trie, p)[2][1]
        /\ \E q \in StringsUpTo(MaxLen + 1) : Len(search(trie, q)) = 1

\* C8 as stated: on the greedy branch for rows 1..3, the word returned is the
\* first one, in the order the words were supplied and inserted, that achieves
\* the maximal score.
C8_TieBreakInsertionOrder ==
    (pc = "place" /\ row \in 1..N-2 /\ greedy) =>
        \E i \in DOMAIN words_and_clues :
            /\ words_and_clues[i][1] = next_word
            /\ evaluate_word(next_word, row) = MaxScore(row)
            /\ \A k \in 1..i-1 :
                  Len(words_and_clues[k][1]) = N =>
                      evaluate_word(words_and_clues[k][1], row) < MaxScore(row)

\* C8 as amended: on the greedy branch for rows 1..3, the word returned is the
\* first one achieving the maximal score in the order of the generator's own
\* word list (self.words: the pre-order walk of the trie, children in the
\* order their letters were first inserted).
C8_TieBreakWordListOrder ==
    (pc = "place" /\ row \in 1..N-2 /\ greedy) =>
        \E i \in DOMAIN words :
            /\ words[i][1] = next_word
            /\ evaluate_word(next_word, row) = MaxScore(row)
            /\ \A k \in 1..i-1 :
                  Len(words[k][1]) = N =>
                      evaluate_word(words[k][1], row) < MaxScore(row)

\* C8 witness: the greedy branch was taken with two different words at the maximum.
C8_Witness ==
    /\ pc = "place" /\ row \in 1..N-2 /\ greedy
    /\ \E w1, w2 \in Dictionary5 :
          /\ w1 # w2
          /\ evaluate_word(w1, row) = MaxScore(row)
          /\ evaluate_word(w2, row) = MaxScore(row)

\* The contribution of column j as C9 states it: for rows before the last, the
\* number of 5-letter entries the column prefix can be completed to; for the
\* last row, 1 if the column is a complete word and 0 otherwise.
Contribution(word, r, j) ==
    LET pre == VerticalPrefix(word, r, j)
    IN  IF r = N - 1
        THEN IF pre \in Dictionary5 THEN 1 ELSE 0
        ELSE Cardinality({k \in DOMAIN words_and_clues :
                            /\ Len(words_and_clues[k][1]) = N
                            /\ IsPrefix(pre, words_and_clues[k][1])})

RECURSIVE SumContributions(_, _, _)
SumContributions(word, r, j) ==
    IF j > N - 1 THEN 0
    ELSE Contribution(word, r, j) + SumContributions(word, r, j + 1)

\* C9: with rows 0..row-1 filled, for every row in 1..4 and every 5-letter
\* candidate, evaluate_word returns 0 if some column contributes 0 and the sum
\* of the 5 contributions otherwise.
C9_ScoreShortCircuit ==
    (pc \in {"choose", "place"}) =>
        \A w \in [1..N -> Alphabet] :
            evaluate_word(w, row) =
                IF \E j \in 0..N-1 : Contribution(w, row, j) = 0
                THEN 0
                ELSE SumContributions(w, row, 0)

\* C10: once a row r in 1..3 has been placed, each of the 5 column prefixes
\* formed by rows 0..r is a prefix of at least one 5-letter dictionary word.
C10_ColumnFeasible ==
    \A r \in 1..N-2 :
        r < row =>
            \A j \in 0..N-1 :
                \E w \in Dictionary5 : IsPrefix(ColumnPrefix(puzzle, r, j), w)

\* C10 witness: rows 1..3 have been placed on a seed row that differs from row 1.
C10_Witness ==
    /\ pc = "choose" /\ row = N - 1
    /\ horizontal_word(puzzle, 0) # horizontal_word(puzzle, 1)

====
